---- MODULE Spec2Model ----
(***************************************************************************)
(* Model of src/lib/downstream.ts: searchFromApi (paged search over one    *)
(* upstream source), getDetailFromApi (JSON detail and HTML scrape) and    *)
(* transformApiSearchItem (normalisation of one raw item).                 *)
(*                                                                         *)
(* Text is modelled as a sequence of tokens.  A token is a piece of the    *)
(* real string ("https://", ".m3u8", "$", "a", ...): the real string is    *)
(* the concatenation of the tokens.  The tokens are chosen so that every   *)
(* regular expression of the source can only start or end a match on a     *)
(* token boundary, so matching on tokens is matching on characters.        *)
(*                                                                         *)
(* An optional field (vod_year?: string) is a record [def, v]: def is      *)
(* FALSE for undefined.                                                    *)
(*                                                                         *)
(* A fetch is awaited twice, as in the source: once for the head of the    *)
(* response (await fetch, which the abort timer guards and after which     *)
(* clearTimeout runs) and once for the body (await response.json() or      *)
(* text(), which no timer guards).  Each await is a separate step.         *)
(***************************************************************************)
EXTENDS Integers, Sequences, FiniteSets, TLC

\* ------------------------------------------------------------- bounds
\* entries in a raw vod_play_url
MaxEntries == 2
\* items in the `list` of one search page
MaxItems == 2
\* largest pagecount the upstream reports
MaxPageCount == 4

\* config.SiteConfig.SearchDownstreamMaxPage
MAX_SEARCH_PAGES == 3

\* ------------------------------------------------------------- text
Undef == [def |-> FALSE, v |-> <<>>]
Str(s) == [def |-> TRUE, v |-> s]
\* JavaScript truthiness of an optional string
Truthy(o) == o.def /\ o.v /= <<>>

Schemes == {"http://", "https://"}
Spaces == {" ", "\t", "\n"}
Quotes == {"\"", "'"}
Digits == {"0", "1", "2", "3", "4", "5", "6", "7", "8", "9"}
\* what [^"'\s] accepts
UrlChar(t) == t \notin Spaces /\ t \notin Quotes

RECURSIVE Flatten(_)
Flatten(ss) == IF ss = <<>> THEN <<>> ELSE Head(ss) \o Flatten(Tail(ss))

RECURSIVE TrimLeft(_)
TrimLeft(s) ==
  IF s /= <<>> /\ Head(s) \in Spaces THEN TrimLeft(Tail(s)) ELSE s

RECURSIVE TrimRight(_)
TrimRight(s) ==
  IF s /= <<>> /\ s[Len(s)] \in Spaces
    THEN TrimRight(SubSeq(s, 1, Len(s) - 1))
    ELSE s

\* String.prototype.trim
Trim(s) == TrimRight(TrimLeft(s))

\* s.replace(/\s+/g, ' ')
RECURSIVE CollapseSpaces(_)
CollapseSpaces(s) ==
  IF s = <<>> THEN <<>>
  ELSE IF Head(s) \in Spaces
    THEN <<" ">> \o CollapseSpaces(TrimLeft(s))
    ELSE <<Head(s)>> \o CollapseSpaces(Tail(s))

\* Array.from(new Set(xs)): first occurrences, in order
RECURSIVE Dedup(_)
Dedup(xs) ==
  IF xs = <<>> THEN <<>>
  ELSE LET r == Dedup(SubSeq(xs, 1, Len(xs) - 1))
           x == xs[Len(xs)]
       IN IF \E i \in 1..Len(r) : r[i] = x THEN r ELSE Append(r, x)

\* s.indexOf(t), 1-based; 0 when absent
IndexOf(s, t) ==
  IF \E i \in 1..Len(s) : s[i] = t
    THEN CHOOSE i \in 1..Len(s) : s[i] = t /\ \A j \in 1..(i - 1) : s[j] /= t
    ELSE 0

\* s.split(sep) for a separator of n copies of the token t
RECURSIVE SplitRun(_, _, _)
SplitRun(s, t, n) ==
  LET At(i) == i + n - 1 <= Len(s) /\ \A j \in i..(i + n - 1) : s[j] = t
  IN IF \E i \in 1..Len(s) : At(i)
       THEN LET i == CHOOSE k \in 1..Len(s) : At(k) /\ \A j \in 1..(k - 1) : ~At(j)
            IN <<SubSeq(s, 1, i - 1)>> \o SplitRun(SubSeq(s, i + n, Len(s)), t, n)
       ELSE <<s>>

\* ------------------------------------------------------------- patterns
\* the tail of /https?:\/\/[^"'\s]+?<tail>/ matched lazily from the token
\* after the scheme: the index of the last token of the shortest match, or 0.
\* tail is the sequence of tokens the match must end with.
RECURSIVE LazyEnd(_, _, _, _)
LazyEnd(s, first, k, tail) ==
  IF k + Len(tail) - 1 > Len(s) THEN 0
  ELSE IF k > first /\ SubSeq(s, k, k + Len(tail) - 1) = tail
    THEN k + Len(tail) - 1
  ELSE IF UrlChar(s[k]) THEN LazyEnd(s, first, k + 1, tail)
  ELSE 0

\* one attempt of the pattern at position i; prefix is <<"$">> or <<>>
MatchAt(s, i, prefix, tail) ==
  LET p == Len(prefix)
  IN IF i + p <= Len(s)
        /\ SubSeq(s, i, i + p - 1) = prefix
        /\ s[i + p] \in Schemes
       THEN LazyEnd(s, i + p + 1, i + p + 1, tail)
       ELSE 0

\* s.match(/.../g) || []: the matches left to right, not overlapping
RECURSIVE MatchAll(_, _, _, _)
MatchAll(s, i, prefix, tail) ==
  IF i > Len(s) THEN <<>>
  ELSE LET e == MatchAt(s, i, prefix, tail)
       IN IF e = 0 THEN MatchAll(s, i + 1, prefix, tail)
          ELSE <<SubSeq(s, i, e)>> \o MatchAll(s, e + 1, prefix, tail)

M3U8 == <<".m3u8">>
\* the provider path /\d{8}\/\d+_[a-f0-9]+\/index/ as one token
FfzyPath == "/20240101/1_ab/index"

\* /\$(https?:\/\/[^"'\s]+?\.m3u8)/g
m3u8Regex(s) == MatchAll(s, 1, <<"$">>, M3U8)
\* /(https?:\/\/[^"'\s]+?\.m3u8)/g
M3U8_PATTERN(s) == MatchAll(s, 1, <<>>, M3U8)
\* /\$(https?:\/\/[^"'\s]+?\/\d{8}\/\d+_[a-f0-9]+\/index\.m3u8)/g
ffzyPattern(s) == MatchAll(s, 1, <<"$">>, <<FfzyPath, ".m3u8">>)

\* link.substring(1), then cut at the first '(' when it is not the first char
StripLink(link) ==
  LET l == Tail(link)
      parenIndex == IndexOf(l, "(") - 1
  IN IF parenIndex > 0 THEN SubSeq(l, 1, parenIndex) ELSE l

\* vod_year.match(/\d{4}/)?.[0] : the first run of four digits, or <<>>
FirstFourDigits(s) ==
  LET At(i) == i + 3 <= Len(s) /\ \A j \in i..(i + 3) : s[j] \in Digits
  IN IF \E i \in 1..Len(s) : At(i)
       THEN LET i == CHOOSE k \in 1..Len(s) : At(k) /\ \A j \in 1..(k - 1) : ~At(j)
            IN SubSeq(s, i, i + 3)
       ELSE <<>>

\* ------------------------------------------------------------- normalisation
\* JSON null in the place of an item
NullItem == [null |-> TRUE]

Unknown == <<"u", "n", "k", "n", "o", "w", "n">>

Tags == {"<p>", "</p>", "<br>"}

\* utils.cleanHtmlTags: plain text of a string with markup; '' for no text
cleanHtmlTags(o) ==
  IF ~Truthy(o) THEN <<>> ELSE SelectSeq(o.v, LAMBDA t : t \notin Tags)

\* vod_year ? vod_year.match(/\d{4}/)?.[0] || '' : 'unknown'
YearOf(vod_year) ==
  IF Truthy(vod_year) THEN FirstFourDigits(vod_year.v) ELSE Unknown

\* the forEach over the '$$$' groups: a group replaces the list kept so far
\* only when it has strictly more matches
RECURSIVE RichestGroup(_, _)
RichestGroup(groups, episodes) ==
  IF groups = <<>> THEN episodes
  ELSE LET matches == m3u8Regex(Head(groups))
       IN RichestGroup(Tail(groups),
                       IF Len(matches) > Len(episodes) THEN matches ELSE episodes)

\* Array.from(new Set(matches)).map(strip)
StripAll(matches) ==
  LET d == Dedup(matches) IN [i \in 1..Len(d) |-> StripLink(d[i])]

SearchEpisodes(vod_play_url) ==
  StripAll(IF Truthy(vod_play_url)
             THEN RichestGroup(SplitRun(vod_play_url.v, "$", 3), <<>>)
             ELSE <<>>)

transformApiSearchItem(item, apiSite) ==
  [id |-> item.vod_id,
   title |-> CollapseSpaces(Trim(item.vod_name)),
   poster |-> item.vod_pic,
   episodes |-> SearchEpisodes(item.vod_play_url),
   source |-> apiSite.key,
   source_name |-> apiSite.name,
   class |-> item.vod_class,
   year |-> YearOf(item.vod_year),
   desc |-> cleanHtmlTags(Str(IF Truthy(item.vod_content) THEN item.vod_content.v ELSE <<>>)),
   type_name |-> item.type_name,
   douban_id |-> item.vod_douban_id]

\* ------------------------------------------------------------- responses
\* response.ok taken as "not a client or server error"
ResponseOkBelow400(status) == status < 400

\* response.ok
ResponseOk(status) == 200 <= status /\ status <= 299

\* !data || !data.list || !Array.isArray(data.list) || data.list.length === 0
\* a body is [kind |-> "null" | "nolist" | "notarray" | "list", ...] when it
\* parsed, "unparsable" or "broken" when response.json() rejected, "unread"
\* when it was not asked for
InvalidList(body) == body.kind /= "list" \/ body.list = <<>>

\* what fetchSearchResults returns once its fetch, and the body when it
\* reads one, have settled.  An outcome is [kind |-> "neterr"],
\* [kind |-> "abort"] or [kind |-> "response", status, body].
fetchSearchResults(outcome, apiSite) ==
  IF outcome.kind /= "response" THEN <<>>
  ELSE IF ~ResponseOk(outcome.status) THEN <<>>
  ELSE IF outcome.body.kind \in {"unparsable", "broken"} THEN <<>>
  ELSE IF InvalidList(outcome.body) THEN <<>>
  ELSE LET list == outcome.body.list
       IN IF \E i \in 1..Len(list) : list[i] = NullItem
            THEN <<>>
            ELSE [i \in 1..Len(list) |-> transformApiSearchItem(list[i], apiSite)]

\* ------------------------------------------------------------- detail
\* episodes of the JSON branch
DetailEpisodes(videoDetail) ==
  LET structured ==
        IF Truthy(videoDetail.vod_play_url)
          THEN LET mainSource == Head(SplitRun(videoDetail.vod_play_url.v, "$", 3))
                   episodeList == SplitRun(mainSource, "#", 1)
                   urls == [i \in 1..Len(episodeList) |->
                              LET parts == SplitRun(episodeList[i], "$", 1)
                              IN IF Len(parts) > 1 THEN parts[2] ELSE <<>>]
               IN SelectSeq(urls, LAMBDA url : url /= <<>> /\ Head(url) \in Schemes)
          ELSE <<>>
  IN IF structured = <<>> /\ Truthy(videoDetail.vod_content)
       THEN M3U8_PATTERN(videoDetail.vod_content.v)
       ELSE structured

\* the record the JSON branch returns for data.list[0]
DetailRecord(videoDetail, apiSite, id) ==
  [id |-> id,
   title |-> videoDetail.vod_name,
   poster |-> videoDetail.vod_pic,
   episodes |-> DetailEpisodes(videoDetail),
   source |-> apiSite.key,
   source_name |-> apiSite.name,
   class |-> videoDetail.vod_class,
   year |-> YearOf(videoDetail.vod_year),
   desc |-> cleanHtmlTags(videoDetail.vod_content),
   type_name |-> videoDetail.type_name,
   douban_id |-> videoDetail.vod_douban_id]

\* a completed call: a value, or an error thrown to the caller
Returned(v) == [kind |-> "ok", value |-> v, error |-> "", code |-> 0]
Thrown(e, c) == [kind |-> "error", value |-> <<>>, error |-> e, code |-> c]

\* getDetailFromApi without apiSite.detail, from the settled fetch (and body)
\* on
getDetailJson(outcome, apiSite, id) ==
  IF outcome.kind = "neterr" THEN Thrown("NetworkError", 0)
  ELSE IF outcome.kind = "abort" THEN Thrown("AbortError", 0)
  ELSE IF ~ResponseOk(outcome.status) THEN Thrown("RequestFailed", outcome.status)
  ELSE IF outcome.body.kind = "broken" THEN Thrown("NetworkError", 0)
  ELSE IF outcome.body.kind = "unparsable" THEN Thrown("SyntaxError", 0)
  ELSE IF InvalidList(outcome.body) THEN Thrown("InvalidPayload", 0)
  ELSE IF Head(outcome.body.list) = NullItem THEN Thrown("TypeError", 0)
  ELSE Returned(DetailRecord(Head(outcome.body.list), apiSite, id))

\* episodes of the HTML branch
ScrapeEpisodes(html, apiSite) ==
  LET strict == IF apiSite.key = "ffzy" THEN ffzyPattern(html) ELSE <<>>
  IN StripAll(IF strict = <<>> THEN m3u8Regex(html) ELSE strict)

\* handleSpecialSourceDetail, from the settled fetch on; the body is the
\* page text ([kind |-> "text", text]).  Of the record it returns, the fields
\* scraped by the page's other patterns (title, poster, year, desc) are left
\* out.
handleSpecialSourceDetail(outcome, apiSite, id) ==
  IF outcome.kind = "neterr" THEN Thrown("NetworkError", 0)
  ELSE IF outcome.kind = "abort" THEN Thrown("AbortError", 0)
  ELSE IF ~ResponseOk(outcome.status) THEN Thrown("RequestFailed", outcome.status)
  ELSE IF outcome.body.kind = "broken" THEN Thrown("NetworkError", 0)
  ELSE Returned([id |-> id, episodes |-> ScrapeEpisodes(outcome.body.text, apiSite),
                 source |-> apiSite.key, source_name |-> apiSite.name,
                 class |-> <<>>, type_name |-> <<>>, douban_id |-> 0])

\* ------------------------------------------------------------- numbers
\* A JavaScript number: NaN, +Infinity or -Infinity (m is the sign), or the
\* decimal m * 10^e kept in normal form (m not a multiple of 10, zero as
\* 0 * 10^0), so that equal numbers are equal records.  The literals of the
\* model are short enough for the decimal to be the exact double.
NaN == [is |-> "nan", m |-> 0, e |-> 0]
Infinity(sign) == [is |-> "inf", m |-> sign, e |-> 0]

RECURSIVE Dec(_, _)
Dec(m, e) ==
  IF m = 0 THEN [is |-> "fin", m |-> 0, e |-> 0]
  ELSE IF m % 10 = 0 THEN Dec(m \div 10, e + 1)
  ELSE [is |-> "fin", m |-> m, e |-> e]

Num(n) == Dec(n, 0)

\* m * 10^e <= k, for an integer k >= 0
RECURSIVE LeInt(_, _, _)
LeInt(m, e, k) ==
  IF m <= 0 THEN TRUE
  ELSE IF e = 0 THEN m <= k
  ELSE IF e > 0 THEN (IF m > k THEN FALSE ELSE LeInt(m * 10, e - 1, k))
  ELSE IF m <= k THEN TRUE ELSE LeInt(m, e + 1, k * 10)

\* x <= k for a number x and an integer k >= 0
NumLe(x, k) ==
  \/ x.is = "inf" /\ x.m < 0
  \/ x.is = "fin" /\ LeInt(x.m, x.e, k)

\* k <= x for an integer k >= 0 and a number x
NumGe(x, k) ==
  \/ x.is = "inf" /\ x.m > 0
  \/ x.is = "fin" /\ (~LeInt(x.m, x.e, k) \/ x = Num(k))

LowerDigits ==
  <<"0", "1", "2", "3", "4", "5", "6", "7", "8", "9", "a", "b", "c", "d", "e", "f">>
UpperDigits ==
  <<"0", "1", "2", "3", "4", "5", "6", "7", "8", "9", "A", "B", "C", "D", "E", "F">>

IsDigit(c, base) == \E n \in 1..base : LowerDigits[n] = c \/ UpperDigits[n] = c
AllDigits(s, base) == \A i \in 1..Len(s) : IsDigit(s[i], base)
DigitValue(c) == (CHOOSE n \in 1..16 : LowerDigits[n] = c \/ UpperDigits[n] = c) - 1

RECURSIVE RadixValue(_, _)
RadixValue(s, base) ==
  IF s = <<>> THEN 0
  ELSE base * RadixValue(SubSeq(s, 1, Len(s) - 1), base) + DigitValue(s[Len(s)])

DecimalValue(s) == RadixValue(s, 10)

\* the index of the first token of s that is in S; 0 when there is none
FirstIn(s, S) ==
  IF \E i \in 1..Len(s) : s[i] \in S
    THEN CHOOSE i \in 1..Len(s) : s[i] \in S /\ \A j \in 1..(i - 1) : s[j] \notin S
    ELSE 0

Signs == {"+", "-"}
InfinityText == <<"I", "n", "f", "i", "n", "i", "t", "y">>

\* an unsigned StrDecimalLiteral: digits[.digits][e[+-]digits] or .digits[...]
UnsignedDecimal(u) ==
  LET x == FirstIn(u, {"e", "E"})
      mant == IF x = 0 THEN u ELSE SubSeq(u, 1, x - 1)
      expo == IF x = 0 THEN <<>> ELSE SubSeq(u, x + 1, Len(u))
      esigned == expo /= <<>> /\ Head(expo) \in Signs
      edigits == IF esigned THEN Tail(expo) ELSE expo
      d == IndexOf(mant, ".")
      int == IF d = 0 THEN mant ELSE SubSeq(mant, 1, d - 1)
      frac == IF d = 0 THEN <<>> ELSE SubSeq(mant, d + 1, Len(mant))
      ok == /\ AllDigits(int, 10) /\ AllDigits(frac, 10)
            /\ int \o frac /= <<>>
            /\ x /= 0 => (edigits /= <<>> /\ AllDigits(edigits, 10))
  IN IF ~ok THEN NaN
     ELSE LET ev == IF esigned /\ Head(expo) = "-"
                      THEN 0 - DecimalValue(edigits)
                      ELSE DecimalValue(edigits)
          IN Dec(DecimalValue(int \o frac), ev - Len(frac))

\* ToNumber of a string, as Math.min applies it: white space trimmed, '' is
\* 0, 0x 0o 0b literals without a sign, Infinity and decimals with one
ToNumber(s) ==
  LET t == Trim(s)
  IN IF t = <<>> THEN Num(0)
     ELSE IF Len(t) >= 2 /\ t[1] = "0" /\ t[2] \in {"x", "X", "o", "O", "b", "B"}
       THEN LET base == IF t[2] \in {"x", "X"} THEN 16
                        ELSE IF t[2] \in {"o", "O"} THEN 8 ELSE 2
                ds == SubSeq(t, 3, Len(t))
            IN IF ds /= <<>> /\ AllDigits(ds, base)
                 THEN Num(RadixValue(ds, base))
                 ELSE NaN
     ELSE LET signed == Head(t) \in Signs
              u == IF signed THEN Tail(t) ELSE t
              v == IF u = InfinityText THEN Infinity(1) ELSE UnsignedDecimal(u)
          IN IF Head(t) = "-" /\ v.is /= "nan"
               THEN [v EXCEPT !.m = 0 - v.m]
               ELSE v

\* data.pagecount || MAX_SEARCH_PAGES: the default taken to be the cap
PageCountOrMax(pagecount) ==
  IF pagecount.t = "undef" THEN Num(MAX_SEARCH_PAGES)
  ELSE IF pagecount.t = "num"
    THEN IF pagecount.n = 0 THEN Num(MAX_SEARCH_PAGES) ELSE Num(pagecount.n)
  ELSE IF pagecount.s = <<>> THEN Num(MAX_SEARCH_PAGES)
  ELSE ToNumber(pagecount.s)

\* data.pagecount || 1, as Math.min converts it to a number.
\* A pagecount is [t |-> "undef"], [t |-> "num", n] or [t |-> "str", s].
PageCountOrOne(pagecount) ==
  IF pagecount.t = "undef" THEN Num(1)
  ELSE IF pagecount.t = "num"
    THEN IF pagecount.n = 0 THEN Num(1) ELSE Num(pagecount.n)
  ELSE IF pagecount.s = <<>> THEN Num(1)
  ELSE ToNumber(pagecount.s)

\* Math.min(pageCount, MAX_SEARCH_PAGES)
PagesToFetch(pageCount) ==
  IF pageCount.is = "nan" THEN NaN
  ELSE IF NumLe(pageCount, MAX_SEARCH_PAGES) THEN pageCount
  ELSE Num(MAX_SEARCH_PAGES)

\* pagesToFetch <= 1
AtMostOne(p) == NumLe(p, 1)

\* the pages the for loop issues: page = 2; page <= pagesToFetch; page++
\* (pagesToFetch is at most MAX_SEARCH_PAGES)
LoopPages(p) == {page \in 2..MAX_SEARCH_PAGES : NumGe(p, page)}

\* ------------------------------------------------------------- queries
HighSurrogate == "<D83D>"
LowSurrogate == "<DE00>"

\* no lone surrogate: encodeURIComponent throws URIError on one
WellFormed(q) ==
  \A i \in 1..Len(q) :
    /\ q[i] = HighSurrogate => i < Len(q) /\ q[i + 1] = LowSurrogate
    /\ q[i] = LowSurrogate => i > 1 /\ q[i - 1] = HighSurrogate

RECURSIVE Encode(_)
Encode(q) ==
  IF q = <<>> THEN <<>>
  ELSE IF Head(q) = HighSurrogate THEN <<"%F0%9F%98%80">> \o Encode(Tail(Tail(q)))
  ELSE IF Head(q) = " " THEN <<"%20">> \o Encode(Tail(q))
  ELSE <<Head(q)>> \o Encode(Tail(q))

encodeURIComponent(q) ==
  IF WellFormed(q) THEN [threw |-> FALSE, v |-> Encode(q)]
  ELSE [threw |-> TRUE, v |-> <<>>]

\* ------------------------------------------------------------- inputs
\* ApiSite: detail is the optional base of the HTML detail pages
Sites ==
  {[key |-> "a", name |-> "A", api |-> "https://a/api", detail |-> Undef],
   [key |-> "ffzy", name |-> "F", api |-> "https://f/api",
    detail |-> Str(<<"https://", "f">>)],
   [key |-> "b", name |-> "B", api |-> "https://b/api",
    detail |-> Str(<<"https://", "b">>)]}

Queries == {<<"a", " ", HighSurrogate, LowSurrogate>>, <<"a", HighSurrogate>>, <<LowSurrogate>>}

\* one episode entry of a play list: label$url
Entries ==
  {<<"e", "$", "https://", "a", ".m3u8">>,
   <<"e", "$", "https://", "b", ".m3u8">>,
   <<"e", "$", "https://", "a", ".m3u8", "(", "x", ")">>,
   <<"e", "$", "https://", "a", "(", "x", ")", ".m3u8">>,
   <<"e", "$", "https://", "a", "(", "y", ")", ".m3u8">>,
   <<"e", "$", "http://", "a", ".mp4">>}

Separators == {<<"#">>, <<"$", "$", "$">>}

RECURSIVE PlayUrlsOf(_)
PlayUrlsOf(n) ==
  IF n = 1 THEN Entries
  ELSE {p \o sep \o e : p \in PlayUrlsOf(n - 1), sep \in Separators, e \in Entries}

PlayUrls == UNION {PlayUrlsOf(n) : n \in 1..MaxEntries}

Names == {<<"Foo">>, <<" ", "Foo", "\n", "\t", "Bar", " ">>}

Years ==
  {Undef, Str(<<>>), Str(<<"2", "0", "1", "1", "y">>), Str(<<"N", "A">>),
   Str(<<"2", "0", "1">>), Str(<<"c", "1", "9", "9", "9", "5">>)}

Contents ==
  {Undef, Str(<<"<p>", "plot", "</p>">>),
   Str(<<"see", " ", "https://", "c", ".m3u8", " ", "https://", "c", ".m3u8">>)}

DetailItems ==
  [vod_id : {7}, vod_name : Names, vod_pic : {"p.jpg"},
   vod_play_url : {Undef} \cup {Str(p) : p \in PlayUrls},
   vod_class : {Str(<<"c">>)}, vod_year : Years, vod_content : Contents,
   vod_douban_id : {0}, type_name : {Undef}]

\* item i of page k of a search, in one of two shapes
ShapedItem(k, i, shape) ==
  [vod_id |-> 10 * k + i,
   vod_name |-> IF shape = 1 THEN <<"Foo">> ELSE <<" ", "Foo", "\t", "Bar">>,
   vod_pic |-> "p.jpg",
   vod_play_url |->
     IF shape = 1
       THEN Str(<<"e", "$", "https://", "a", ".m3u8", "#",
                  "e", "$", "https://", "b", ".m3u8">>)
       ELSE Str(<<"e", "$", "https://", "a", "(", "x", ")", ".m3u8", "#",
                  "e", "$", "https://", "a", "(", "y", ")", ".m3u8">>),
   vod_class |-> Undef,
   vod_year |-> IF shape = 1 THEN Str(<<"2", "0", "1", "1", "y">>) ELSE Str(<<"N", "A">>),
   vod_content |-> IF shape = 1 THEN Undef ELSE Str(<<"<p>", "plot">>),
   vod_douban_id |-> 0,
   type_name |-> Undef]

\* odd items are of the first shape, even items of the second
SearchItem(k, i) == ShapedItem(k, i, 2 - (i % 2))

SearchLists(k) == {[i \in 1..n |-> SearchItem(k, i)] : n \in 0..MaxItems}

\* a response of which the body has been read, or not (Unread)
Response(status, body) == [kind |-> "response", status |-> status, body |-> body]
Unread == [kind |-> "unread"]
NetworkError == [kind |-> "neterr"]
Abort == [kind |-> "abort"]
NoOutcome == [kind |-> "none"]

\* bodies that are no list: text that is no JSON, JSON null, an object
\* without list, an object whose list is no array, and a body whose stream
\* breaks before its end
JunkBodies ==
  {[kind |-> "unparsable"], [kind |-> "null"], [kind |-> "nolist"],
   [kind |-> "notarray"], [kind |-> "broken"]}

List(l) == [kind |-> "list", list |-> l]

\* the status of the head the upstream may send for a search request
SearchStatuses == {200, 404}

\* the body the upstream may send for search page k
PageBodies(k) ==
  JunkBodies \cup {List(l) : l \in SearchLists(k) \cup {<<NullItem>>}}

PageCounts ==
  {[t |-> "undef"],
   [t |-> "str", s |-> <<"a", "b", "c">>],
   [t |-> "str", s |-> <<"2">>],
   [t |-> "str", s |-> <<" ", "2">>],
   [t |-> "str", s |-> <<"1", "e", "1">>],
   [t |-> "str", s |-> <<"2", ".", "5">>],
   [t |-> "str", s |-> <<"0", "x", "2">>]}
    \cup {[t |-> "num", n |-> n] : n \in -1..MaxPageCount}

\* the body the upstream may send for the page-count lookup
LookupBodies ==
  {[kind |-> "unparsable"], [kind |-> "null"], [kind |-> "broken"]}
    \cup {[kind |-> "envelope", pagecount |-> c] : c \in PageCounts}

HtmlPieces ==
  {<<"<p>">>,
   <<"\"", "$", "https://", "a", ".m3u8", "\"">>,
   <<"$", "https://", "a", "(", "x", ")", ".m3u8", " ">>,
   <<"$", "https://", "f", FfzyPath, ".m3u8", " ">>}

RECURSIVE HtmlsOf(_)
HtmlsOf(n) ==
  IF n = 0 THEN {<<>>}
  ELSE {h \o p : h \in HtmlsOf(n - 1), p \in HtmlPieces}

Htmls == UNION {HtmlsOf(n) : n \in 0..(MaxEntries + 1)}

\* the status of the head the upstream may send for a detail request
Statuses == {200, 204, 299, 300, 404, 500}

\* the body the upstream may send for a detail request of the JSON API
JsonDetailBodies(status) ==
  JunkBodies \cup {List(<<>>), List(<<SearchItem(0, 7)>>)}
    \cup (IF status = 200 THEN {List(<<v>>) : v \in DetailItems \cup {NullItem}} ELSE {})

\* the body the upstream may send for a detail page
HtmlDetailBodies(status) ==
  {[kind |-> "broken"]}
    \cup (IF status = 200 THEN {[kind |-> "text", text |-> h] : h \in Htmls}
          ELSE {[kind |-> "text", text |-> <<>>]})

Ids == {"7"}

\* ------------------------------------------------------------- state
VARIABLES
  pc,            \* where the one call awaits: idle, page1, lookup, join, detail, done
  fn,            \* the function called: none, search, detail
  apiSite,       \* its source
  query,         \* the query of a search
  id,            \* the id of a detail call
  fetches,       \* fetchSearchResults of each page: its fetch, timer and result
  order,         \* the pages in the order their fetchSearchResults settled
  lookup,        \* the page-count fetch of searchFromApi
  dfetch,        \* the fetch of a detail call
  pagesToFetch,  \* Math.min(pageCount, MAX_SEARCH_PAGES), once computed
  result         \* what the call returned or threw

vars == <<pc, fn, apiSite, query, id, fetches, order, lookup, dfetch, pagesToFetch, result>>

\* the page numbers an upstream can be asked for
PageIds == 1..(IF MaxPageCount > MAX_SEARCH_PAGES THEN MaxPageCount ELSE MAX_SEARCH_PAGES)

\* A fetch and the function awaiting it.  st is none (not issued), pending
\* (await fetch), body (fetch resolved, await response.json() or text()) or
\* settled (the awaiting function ran on to its return or throw); timer
\* tells whether the abort timer is armed.
NoFetch == [st |-> "none", timer |-> FALSE, outcome |-> NoOutcome, res |-> <<>>]
Pending(timer) == [st |-> "pending", timer |-> timer, outcome |-> NoOutcome, res |-> <<>>]
ReadingBody(status) ==
  [st |-> "body", timer |-> FALSE, outcome |-> Response(status, Unread), res |-> <<>>]
Settled(timer, outcome, res) ==
  [st |-> "settled", timer |-> timer, outcome |-> outcome, res |-> res]

NoResult == [kind |-> "none", value |-> <<>>, error |-> "", code |-> 0]
NoSite == CHOOSE s \in Sites : TRUE

Init ==
  /\ pc = "idle"
  /\ fn = "none"
  /\ apiSite = NoSite
  /\ query = <<>>
  /\ id = ""
  /\ fetches = [k \in PageIds |-> NoFetch]
  /\ order = <<>>
  /\ lookup = NoFetch
  /\ dfetch = NoFetch
  /\ pagesToFetch = Num(0)
  /\ result = NoResult

\* ------------------------------------------------------------- search
\* searchFromApi up to its first await: the URL is built outside the try
SearchStart(s, q) ==
  /\ pc = "idle"
  /\ fn' = "search"
  /\ apiSite' = s
  /\ query' = q
  /\ IF encodeURIComponent(q).threw
       THEN /\ pc' = "done"
            /\ result' = Thrown("URIError", 0)
            /\ UNCHANGED fetches
       ELSE /\ pc' = "page1"
            /\ fetches' = [fetches EXCEPT ![1] = Pending(TRUE)]
            /\ UNCHANGED result
  /\ UNCHANGED <<id, order, lookup, dfetch, pagesToFetch>>

\* the fetch of page k rejects (network failure): the catch returns [] and
\* does not clear the timer
PageFail(k) ==
  /\ fetches[k].st = "pending"
  /\ fetches' = [fetches EXCEPT ![k] =
       Settled(fetches[k].timer, NetworkError,
               fetchSearchResults(NetworkError, apiSite))]
  /\ order' = Append(order, k)
  /\ UNCHANGED <<pc, fn, apiSite, query, id, lookup, dfetch, pagesToFetch, result>>

\* the fetch of page k resolves with the head of a response:
\* clearTimeout, then return [] when not ok, else await response.json()
PageHead(k, status) ==
  /\ fetches[k].st = "pending"
  /\ IF ResponseOk(status)
       THEN /\ fetches' = [fetches EXCEPT ![k] = ReadingBody(status)]
            /\ UNCHANGED order
       ELSE /\ fetches' = [fetches EXCEPT ![k] =
                 Settled(FALSE, Response(status, Unread),
                         fetchSearchResults(Response(status, Unread), apiSite))]
            /\ order' = Append(order, k)
  /\ UNCHANGED <<pc, fn, apiSite, query, id, lookup, dfetch, pagesToFetch, result>>

\* response.json() of page k settles and fetchSearchResults runs to its return
PageBody(k, body) ==
  /\ fetches[k].st = "body"
  /\ LET outcome == Response(fetches[k].outcome.status, body)
     IN fetches' = [fetches EXCEPT ![k] =
          Settled(FALSE, outcome, fetchSearchResults(outcome, apiSite))]
  /\ order' = Append(order, k)
  /\ UNCHANGED <<pc, fn, apiSite, query, id, lookup, dfetch, pagesToFetch, result>>

\* the 8000 ms timer of page k fires: controller.abort().  While the fetch
\* is pending it rejects with AbortError and the catch returns []; on a
\* fetch that was rejected before (its timer was left armed) nothing follows
PageTimeout(k) ==
  /\ fetches[k].timer
  /\ IF fetches[k].st = "pending"
       THEN /\ fetches' = [fetches EXCEPT ![k] =
                 Settled(FALSE, Abort, fetchSearchResults(Abort, apiSite))]
            /\ order' = Append(order, k)
       ELSE /\ fetches' = [fetches EXCEPT ![k].timer = FALSE]
            /\ UNCHANGED order
  /\ UNCHANGED <<pc, fn, apiSite, query, id, lookup, dfetch, pagesToFetch, result>>

\* AfterPage1 without the early return on an empty page 1
AfterPage1NoEarlyReturn ==
  /\ pc = "page1"
  /\ fetches[1].st = "settled"
  /\ pc' = "lookup"
  /\ lookup' = Pending(FALSE)
  /\ UNCHANGED <<fn, apiSite, query, id, fetches, order, dfetch, pagesToFetch, result>>

\* after await fetchSearchResults(initialUrl): return [] or look the count up
\* with a fetch that has no signal, so no timer
AfterPage1 ==
  /\ pc = "page1"
  /\ fetches[1].st = "settled"
  /\ IF Len(fetches[1].res) = 0
       THEN /\ pc' = "done"
            /\ result' = Returned(<<>>)
            /\ UNCHANGED lookup
       ELSE /\ pc' = "lookup"
            /\ lookup' = Pending(FALSE)
            /\ UNCHANGED result
  /\ UNCHANGED <<fn, apiSite, query, id, fetches, order, dfetch, pagesToFetch>>

\* the page-count fetch rejects: the catch of searchFromApi returns []
LookupFail ==
  /\ pc = "lookup"
  /\ lookup.st = "pending"
  /\ lookup' = Settled(FALSE, NetworkError, <<>>)
  /\ pc' = "done"
  /\ result' = Returned(<<>>)
  /\ UNCHANGED <<fn, apiSite, query, id, fetches, order, dfetch, pagesToFetch>>

\* the page-count fetch resolves with the head of a response: the status is
\* not looked at, await response.json()
LookupHead(status) ==
  /\ pc = "lookup"
  /\ lookup.st = "pending"
  /\ lookup' = ReadingBody(status)
  /\ UNCHANGED <<pc, fn, apiSite, query, id, fetches, order, dfetch, pagesToFetch, result>>

\* response.json() of the lookup settles and searchFromApi runs on from its
\* await: a rejection, or a throw of data.pagecount, goes to the catch of
\* searchFromApi; otherwise the pages are issued
LookupBody(body) ==
  /\ pc = "lookup"
  /\ lookup.st = "body"
  /\ lookup' = Settled(FALSE, Response(lookup.outcome.status, body), <<>>)
  /\ IF body.kind \in {"unparsable", "null", "broken"}
       THEN /\ pc' = "done"
            /\ result' = Returned(<<>>)
            /\ UNCHANGED <<fetches, pagesToFetch>>
       ELSE LET p == PagesToFetch(PageCountOrOne(body.pagecount))
            IN /\ pagesToFetch' = p
               /\ IF AtMostOne(p)
                    THEN /\ pc' = "done"
                         /\ result' = Returned(fetches[1].res)
                         /\ UNCHANGED fetches
                    ELSE /\ pc' = "join"
                         /\ fetches' = [k \in PageIds |->
                              IF k \in LoopPages(p) THEN Pending(TRUE) ELSE fetches[k]]
                         /\ UNCHANGED result
  /\ UNCHANGED <<fn, apiSite, query, id, order, dfetch>>

\* what Promise.all(pagePromises) resolves to for the pages issued: the
\* results in the order of pagePromises
PromiseAllByCompletion(pages) ==
  LET late == SelectSeq(order, LAMBDA k : k \in pages)
  IN [i \in 1..Len(late) |-> fetches[late[i]].res]

PromiseAll(pages) == [i \in 1..Cardinality(pages) |-> fetches[i + 1].res]

\* Join as a race: it returns as soon as one additional page has settled
JoinOnFirst ==
  /\ pc = "join"
  /\ \E k \in LoopPages(pagesToFetch) : fetches[k].st = "settled"
  /\ pc' = "done"
  /\ result' = Returned(fetches[1].res \o Flatten(PromiseAll(LoopPages(pagesToFetch))))
  /\ UNCHANGED <<fn, apiSite, query, id, fetches, order, lookup, dfetch, pagesToFetch>>

\* after await Promise.all(pagePromises): initialResults.concat(...additionalResults)
Join ==
  /\ pc = "join"
  /\ \A k \in LoopPages(pagesToFetch) : fetches[k].st = "settled"
  /\ pc' = "done"
  /\ result' = Returned(fetches[1].res \o Flatten(PromiseAll(LoopPages(pagesToFetch))))
  /\ UNCHANGED <<fn, apiSite, query, id, fetches, order, lookup, dfetch, pagesToFetch>>

\* ------------------------------------------------------------- detail
\* what the detail call of this source does with a settled fetch
DetailResult(outcome) ==
  IF Truthy(apiSite.detail)
    THEN handleSpecialSourceDetail(outcome, apiSite, id)
    ELSE getDetailJson(outcome, apiSite, id)

\* getDetailFromApi or handleSpecialSourceDetail up to await fetch
DetailStart(s, i) ==
  /\ pc = "idle"
  /\ fn' = "detail"
  /\ apiSite' = s
  /\ id' = i
  /\ dfetch' = Pending(TRUE)
  /\ pc' = "detail"
  /\ UNCHANGED <<query, fetches, order, lookup, pagesToFetch, result>>

\* the fetch rejects (network failure): the call rejects with it, the timer
\* is not cleared
DetailFail ==
  /\ pc = "detail"
  /\ dfetch.st = "pending"
  /\ dfetch' = Settled(dfetch.timer, NetworkError, <<>>)
  /\ pc' = "done"
  /\ result' = DetailResult(NetworkError)
  /\ UNCHANGED <<fn, apiSite, query, id, fetches, order, lookup, pagesToFetch>>

\* the fetch resolves with the head of a response: clearTimeout, then throw
\* when not ok, else await response.json() or response.text()
DetailHead(status) ==
  /\ pc = "detail"
  /\ dfetch.st = "pending"
  /\ IF ResponseOk(status)
       THEN /\ dfetch' = ReadingBody(status)
            /\ UNCHANGED <<pc, result>>
       ELSE /\ dfetch' = Settled(FALSE, Response(status, Unread), <<>>)
            /\ pc' = "done"
            /\ result' = DetailResult(Response(status, Unread))
  /\ UNCHANGED <<fn, apiSite, query, id, fetches, order, lookup, pagesToFetch>>

\* the body settles and the call runs from its await to its return or throw
DetailBody(body) ==
  /\ pc = "detail"
  /\ dfetch.st = "body"
  /\ LET outcome == Response(dfetch.outcome.status, body)
     IN /\ dfetch' = Settled(FALSE, outcome, <<>>)
        /\ result' = DetailResult(outcome)
  /\ pc' = "done"
  /\ UNCHANGED <<fn, apiSite, query, id, fetches, order, lookup, pagesToFetch>>

\* the 10000 ms timer fires: controller.abort().  While the fetch is pending
\* it, and with it the call, rejects with AbortError; on a fetch that was
\* rejected before (its timer was left armed) nothing follows
DetailTimeout ==
  /\ dfetch.timer
  /\ IF dfetch.st = "pending"
       THEN /\ dfetch' = Settled(FALSE, Abort, <<>>)
            /\ pc' = "done"
            /\ result' = DetailResult(Abort)
       ELSE /\ dfetch' = [dfetch EXCEPT !.timer = FALSE]
            /\ UNCHANGED <<pc, result>>
  /\ UNCHANGED <<fn, apiSite, query, id, fetches, order, lookup, pagesToFetch>>

\* ------------------------------------------------------------- system
\* What the upstream delivers, each with the continuation it resumes: a
\* failure of the request, the head of a response, and, once the head is
\* there, the body.  The upstream may leave a request unanswered and may
\* leave a body unfinished.
Upstream ==
  \/ \E k \in PageIds :
       /\ fetches[k].st = "pending"
       /\ PageFail(k)
  \/ \E k \in PageIds :
       /\ fetches[k].st = "pending"
       /\ \E status \in SearchStatuses : PageHead(k, status)
  \/ \E k \in PageIds :
       /\ fetches[k].st = "body"
       /\ \E body \in PageBodies(k) : PageBody(k, body)
  \/ LookupFail
  \/ \E status \in SearchStatuses : LookupHead(status)
  \/ /\ lookup.st = "body"
     /\ \E body \in LookupBodies : LookupBody(body)
  \/ DetailFail
  \/ \E status \in Statuses : DetailHead(status)
  \/ /\ dfetch.st = "body"
     /\ ~Truthy(apiSite.detail)
     /\ \E body \in JsonDetailBodies(dfetch.outcome.status) : DetailBody(body)
  \/ /\ dfetch.st = "body"
     /\ Truthy(apiSite.detail)
     /\ \E body \in HtmlDetailBodies(dfetch.outcome.status) : DetailBody(body)

\* steps the program takes by itself: the caller's calls, the continuations
\* of its own promises, and the armed timers
Program ==
  \/ \E s \in Sites : \E q \in Queries : SearchStart(s, q)
  \/ \E k \in PageIds : PageTimeout(k)
  \/ AfterPage1
  \/ Join
  \/ \E s \in Sites : \E i \in Ids : DetailStart(s, i)
  \/ DetailTimeout

Next == Upstream \/ Program

Spec == Init /\ [][Next]_vars

\* the caller calls, continuations run and armed timers fire; the upstream
\* owes nothing
FairSpec == Spec /\ WF_vars(Program)

\* ------------------------------------------------------------- properties
SearchDone == fn = "search" /\ pc = "done"
JsonDetailDone == fn = "detail" /\ pc = "done" /\ ~Truthy(apiSite.detail)

\* the pages requested so far
Requested == {k \in PageIds : fetches[k].st /= "none"}

\* the results of pages 1..n in ascending page order
InPageOrder(n) == Flatten([k \in 1..n |-> fetches[k].res])

\* the lookup delivered an envelope
Envelope ==
  /\ lookup.st = "settled"
  /\ lookup.outcome.kind = "response"
  /\ lookup.outcome.body.kind = "envelope"

\* C1: searchFromApi never fails outward: whatever the source, the query and
\* the outcome of every fetch, the call completes with a sequence of results
\* and never with an error.
C1_NeverFailsOutward == SearchDone => result.kind = "ok"

\* with a well-formed query every outcome of every fetch is absorbed
SearchAbsorbsFetchFailures ==
  (SearchDone /\ WellFormed(query)) => result.kind = "ok"

\* C2: no page above MAX_SEARCH_PAGES is ever requested, and when the
\* envelope reports pagecount P the call requests exactly the pages
\* 1..min(P, MAX_SEARCH_PAGES) and returns their results in ascending page
\* order, whatever the order in which the fetches completed.
C2_CappedAndOrdered ==
  /\ Requested \subseteq 1..MAX_SEARCH_PAGES
  /\ (SearchDone /\ Envelope /\ lookup.outcome.body.pagecount.t = "num"
        /\ lookup.outcome.body.pagecount.n >= 1)
       => LET P == lookup.outcome.body.pagecount.n
              N == IF P < MAX_SEARCH_PAGES THEN P ELSE MAX_SEARCH_PAGES
          IN /\ Requested = 1..N
             /\ result = Returned(InPageOrder(N))

\* pagecount above the cap, page 3 completed before page 2, every page with
\* results, and the call returned
C2_Witness ==
  /\ SearchDone /\ Envelope
  /\ lookup.outcome.body.pagecount = [t |-> "num", n |-> MAX_SEARCH_PAGES + 1]
  /\ order = <<1, 3, 2>>
  /\ \A k \in 1..3 : fetches[k].res /= <<>>
  /\ result.kind = "ok"
  /\ Len(result.value) = Len(fetches[1].res) + Len(fetches[2].res) + Len(fetches[3].res)

\* C3: when the page-1 fetch yields zero results, for whatever reason, the
\* call returns the empty sequence without issuing the page-count lookup or
\* the fetch of any further page.
C3_EmptyPage1ReturnsAtOnce ==
  (fn = "search" /\ fetches[1].st = "settled" /\ fetches[1].res = <<>>)
    => /\ lookup.st = "none"
       /\ Requested = {1}
       /\ pc \in {"page1", "done"}
       /\ pc = "done" => result = Returned(<<>>)

\* page 1 timed out and the call returned
C3_Witness ==
  /\ SearchDone
  /\ fetches[1].outcome = Abort
  /\ result = Returned(<<>>)

\* a fetch that failed, timed out, answered non-2xx or with a malformed payload
FailedOutcome(o) ==
  \/ o.kind \in {"neterr", "abort"}
  \/ /\ o.kind = "response"
     /\ \/ ~(200 <= o.status /\ o.status <= 299)
        \/ o.body.kind /= "list"

\* the additional pages issued
Additional == Requested \ {1}

C4_AllJoined ==
  (SearchDone /\ Additional /= {})
    => /\ \A k \in Additional :
            /\ fetches[k].st = "settled"
            /\ FailedOutcome(fetches[k].outcome) => fetches[k].res = <<>>
       /\ result = Returned(fetches[1].res
            \o Flatten([i \in 1..Cardinality(Additional) |->
                 IF FailedOutcome(fetches[i + 1].outcome) THEN <<>> ELSE fetches[i + 1].res]))

C4_NoSiblingTouched ==
  \A k \in PageIds :
    (fetches[k].st \in {"pending", "body"} /\ fetches'[k] /= fetches[k])
      => \A j \in PageIds \ {k} : fetches'[j] = fetches[j]

\* C4: a failed additional page contributes the empty sequence, the settling
\* of one fetch leaves every sibling as it was, the call returns only after
\* every additional fetch has completed, and the result is page 1's results
\* followed by the other pages' results in ascending page order.
C4_PagesIsolated == []C4_AllJoined /\ [][C4_NoSiblingTouched]_vars

\* page 2 failed on the network, page 3 has results, and the result is pages
\* 1 and 3
C4_Witness ==
  /\ SearchDone
  /\ fetches[2].outcome = NetworkError
  /\ fetches[3].st = "settled" /\ fetches[3].res /= <<>>
  /\ result = Returned(fetches[1].res \o fetches[3].res)

\* a function of the call waits for the rest of a response that has begun
AwaitsBody ==
  \/ \E k \in PageIds : fetches[k].st = "body"
  \/ lookup.st = "body"
  \/ dfetch.st = "body"

\* C5: every fetch of a search carries a timeout, so that the call returns
\* even when the upstream never answers one of its requests: a search that
\* is not held up by an unfinished body eventually returns.
C5_SearchReturns == [](fn = "search" => <>(pc = "done" \/ AwaitsBody))

\* a fetch of fetchSearchResults or of a detail call that gets no answer is
\* aborted by its timer
UnansweredFetchAborts ==
  /\ \A k \in PageIds : [](fetches[k].st = "pending" => <>(fetches[k].st /= "pending"))
  /\ [](dfetch.st = "pending" => <>(dfetch.st /= "pending"))

\* C6: in the JSON branch a non-2xx status fails with RequestFailed carrying
\* the status, a 2xx status with a parsed body that lacks a non-empty list
\* fails with InvalidPayload, and a result is returned only for a 2xx status
\* with a non-empty list.
C6_JsonDetailErrors ==
  JsonDetailDone =>
    LET o == dfetch.outcome
        ok2xx == o.kind = "response" /\ 200 <= o.status /\ o.status <= 299
    IN /\ (o.kind = "response" /\ ~ok2xx) => result = Thrown("RequestFailed", o.status)
       /\ (ok2xx /\ o.body.kind \in {"null", "nolist", "notarray"})
            => result = Thrown("InvalidPayload", 0)
       /\ (ok2xx /\ o.body.kind = "list" /\ o.body.list = <<>>)
            => result = Thrown("InvalidPayload", 0)
       /\ result.kind = "ok" => (ok2xx /\ o.body.kind = "list" /\ o.body.list /= <<>>)

\* status 500: RequestFailed with 500, the body not read
C6_Witness ==
  /\ JsonDetailDone
  /\ dfetch.outcome = Response(500, Unread)
  /\ result = Thrown("RequestFailed", 500)

\* the records a completed call returned
Produced ==
  IF pc /= "done" \/ result.kind /= "ok" THEN {}
  ELSE IF fn = "search" THEN {result.value[i] : i \in 1..Len(result.value)}
  ELSE {result.value}

\* C7: in every record returned by searchFromApi or getDetailFromApi the
\* episodes are pairwise different and each is an absolute http(s) URL ending
\* in .m3u8.
C7_EpisodesDistinctM3u8 ==
  \A r \in Produced :
    /\ \A i, j \in 1..Len(r.episodes) : r.episodes[i] = r.episodes[j] => i = j
    /\ \A i \in 1..Len(r.episodes) :
         /\ r.episodes[i] /= <<>>
         /\ Head(r.episodes[i]) \in Schemes
         /\ r.episodes[i][Len(r.episodes[i])] = ".m3u8"

\* the year the claim gives a raw year field
ClaimedYear(vod_year) ==
  IF vod_year.def /\ FirstFourDigits(vod_year.v) /= <<>>
    THEN FirstFourDigits(vod_year.v)
    ELSE Unknown

\* C8: in every record of search normalisation or of the JSON detail branch
\* year is the first run of four digits of the raw year field, and "unknown"
\* when the field is missing, empty or has no such run.
C8_YearOrUnknown ==
  /\ JsonDetailDone /\ result.kind = "ok"
       => result.value.year = ClaimedYear(Head(dfetch.outcome.body.list).vod_year)
  /\ SearchDone /\ result.kind = "ok"
       => \A k \in PageIds :
            (fetches[k].st = "settled" /\ fetches[k].res /= <<>>)
              => \A i \in 1..Len(fetches[k].res) :
                   fetches[k].res[i].year
                     = ClaimedYear(fetches[k].outcome.body.list[i].vod_year)

\* the lookup did not deliver a valid pagecount
NoValidPageCount ==
  /\ lookup.st = "settled"
  /\ \/ lookup.outcome.kind /= "response"
     \/ lookup.outcome.body.kind \in {"unparsable", "null", "broken"}
     \/ /\ lookup.outcome.body.kind = "envelope"
        /\ LET c == lookup.outcome.body.pagecount
           IN \/ c.t = "undef"
              \/ c.t = "num" /\ c.n = 0
              \/ c.t = "str" /\ (c.s = <<>> \/ ToNumber(c.s) = NaN)

\* C9: a page-count lookup that delivers no valid pagecount (request failed,
\* body not parsable, field missing, zero or non-numeric) counts as pagecount
\* 1: the call returns exactly the page-1 results.
C9_LookupNeverDiscards ==
  (SearchDone /\ NoValidPageCount) => result = Returned(fetches[1].res)

\* C9, amended: a lookup whose body parses to an envelope with pagecount
\* missing, zero or non-numeric counts as pagecount 1: no further page is
\* requested and the call returns exactly the page-1 results; a lookup whose
\* request fails or whose body does not parse to an envelope makes the call
\* return the empty sequence.
C9_LookupDefaultsOrEmpties ==
  (fn = "search" /\ NoValidPageCount)
    => /\ Requested = {1}
       /\ pc = "done" =>
            result = IF lookup.outcome.kind = "response"
                        /\ lookup.outcome.body.kind = "envelope"
                       THEN Returned(fetches[1].res)
                       ELSE Returned(<<>>)

\* the envelope carries a non-numeric pagecount and the call returned page 1
C9_Witness ==
  /\ SearchDone /\ Envelope
  /\ lookup.outcome.body.pagecount = [t |-> "str", s |-> <<"a", "b", "c">>]
  /\ fetches[1].res /= <<>>
  /\ result = Returned(fetches[1].res)

\* C10: for the same raw item and source the JSON detail branch and
\* transformApiSearchItem agree on title, poster, source, source_name, class,
\* year, desc, type_name and douban_id.
C10_DetailAgreesWithSearch ==
  (JsonDetailDone /\ result.kind = "ok")
    => LET d == result.value
           t == transformApiSearchItem(Head(dfetch.outcome.body.list), apiSite)
       IN /\ d.title = t.title
          /\ d.poster = t.poster
          /\ d.source = t.source
          /\ d.source_name = t.source_name
          /\ d.class = t.class
          /\ d.year = t.year
          /\ d.desc = t.desc
          /\ d.type_name = t.type_name
          /\ d.douban_id = t.douban_id

====
